---- MODULE Spec2Model ----
(***************************************************************************)
(* State-machine model of the DHD ECP client                               *)
(* (custom_components/dhd_audio/ecp.py): the frame codec, the connection   *)
(* lifecycle, the background listener with its dispatch of inbound blocks  *)
(* to pending futures, send_command with its lock, and the logic helpers   *)
(* get_logic_state and set_logic_state.                                    *)
(***************************************************************************)
EXTENDS Integers, Sequences, FiniteSets, TLC

\* ---------------------------------------------------------------- bounds
\* longest payload handed to _build_block
MaxData == 9
\* total number of pending ids handed out by send_command
MaxPid == 2
\* total number of TCP connections the model opens
MaxSock == 2

\* ------------------------------------------------------------- constants
ECP_BLOCK_SIZE == 16
ECP_CMD_SET_LOGIC == 286130176
\* a command code different from the logic-state command
OtherCmd == ECP_CMD_SET_LOGIC + 1
\* logic_id = None
NoKey == 0 - 1
\* the tasks that call send_command
Tasks == {"t1", "t2"}
\* logic ids used by callers and by the device (0x0001 and 0x0102)
LogicIds == {258}
\* the callers of connect() and of disconnect()
ConnectCaller == "connect"
DisconnectCaller == "disconnect"

\* ------------------------------------------------------------ the codec
Min(a, b) == IF a < b THEN a ELSE b

\* int.to_bytes(n, "big") for n = 4 and n = 2
ToBytes4(c) ==
  << (c \div 16777216) % 256, (c \div 65536) % 256, (c \div 256) % 256, c % 256 >>

ToBytes2(k) == << (k \div 256) % 256, k % 256 >>

\* int.from_bytes(b, "big")
RECURSIVE FromBytes(_)
FromBytes(b) ==
  IF b = << >> THEN 0
  ELSE FromBytes(SubSeq(b, 1, Len(b) - 1)) * 256 + b[Len(b)]

\* bytes.ljust(8, b"\x00")
Ljust8(data) == data \o [i \in 1..(8 - Len(data)) |-> 0]

\* a _build_block that accepts a ninth payload byte
BuildBlockNoLimit(command_id, data) ==
  IF Len(data) > 9
  THEN [ok |-> FALSE, block |-> << >>]
  ELSE [ok |-> TRUE,
        block |-> <<Len(data), 0>> \o ToBytes4(command_id) \o Ljust8(data) \o <<0, 0>>]

\* DHDClient._build_block: ok = FALSE stands for the ValueError
BuildBlock(command_id, data) ==
  IF Len(data) > 8
  THEN [ok |-> FALSE, block |-> << >>]
  ELSE [ok |-> TRUE,
        block |-> <<Len(data), 0>> \o ToBytes4(command_id) \o Ljust8(data) \o <<0, 0>>]

\* a _parse_block that returns the padded payload field
ParseBlockPadded(block) ==
  [length |-> block[1],
   cmd |-> FromBytes(SubSeq(block, 3, 6)),
   data |-> SubSeq(block, 7, 14)]

\* DHDClient._parse_block on a 16-byte block (Python slices clip at the end)
ParseBlock(block) ==
  [length |-> block[1],
   cmd |-> FromBytes(SubSeq(block, 3, 6)),
   data |-> SubSeq(block, 7, Min(6 + block[1], Len(block)))]

\* ------------------------------------------------------- inputs
\* the 16-byte blocks that may arrive from the device: logic-state blocks
\* with 0, 2 and 3 payload bytes, and blocks of another command
RxBlocks ==
  { BuildBlock(ECP_CMD_SET_LOGIC, p).block :
      p \in { << >>, ToBytes2(258), ToBytes2(258) \o <<0>>, ToBytes2(258) \o <<1>>,
              ToBytes2(1) \o <<1>> } }
  \cup { BuildBlock(OtherCmd, ToBytes2(1) \o <<1>>).block }

\* _parse_block of every block that may arrive
Parsed == [b \in RxBlocks |-> ParseBlock(b)]

\* a payload of 9 bytes, rejected by _build_block
LongData == [i \in 1..9 |-> 0]

\* the direct calls of send_command the tasks make: a bare command
\* without logic_id, and a command with an over-long payload
SendArgs ==
  { [cmd |-> OtherCmd, data |-> << >>, key |-> NoKey] }
  \cup { [cmd |-> ECP_CMD_SET_LOGIC, data |-> LongData, key |-> 258] }

\* get_logic_state lines 345-348: the arguments passed to send_command
GetLogicArgs(logic_id) ==
  [cmd |-> ECP_CMD_SET_LOGIC, data |-> ToBytes2(logic_id), key |-> logic_id]

\* a set_logic_state that sends the id without the state byte
SetLogicArgsNoState(logic_id, state) ==
  [cmd |-> ECP_CMD_SET_LOGIC, data |-> ToBytes2(logic_id), key |-> logic_id]

\* set_logic_state lines 369-372: the arguments passed to send_command
SetLogicArgs(logic_id, state) ==
  [cmd |-> ECP_CMD_SET_LOGIC,
   data |-> ToBytes2(logic_id) \o (IF state THEN <<1>> ELSE <<0>>),
   key |-> logic_id]

\* the calls the tasks make: get_logic_state(i), set_logic_state(i, s) and
\* send_command itself
Calls ==
  { [op |-> "get_logic_state", args |-> GetLogicArgs(i)] : i \in LogicIds }
  \cup { [op |-> "set_logic_state", args |-> SetLogicArgs(i, st)] :
            i \in LogicIds, st \in BOOLEAN }
  \cup { [op |-> "send_command", args |-> a] : a \in SendArgs }

\* ---------------------------------------------------------------- state
VARIABLES
  reader,          \* self._reader: socket id, 0 = None
  writer,          \* self._writer: socket id, 0 = None
  sock,            \* state of every TCP connection
  listener,        \* self._listener_task: none / running / eof / crashed
  lsock,           \* the socket whose reader the listener is blocked on
  loops,           \* number of _listener_loop tasks created and not ended
  pending,         \* self._pending: pids in insertion order
  pending_id,      \* self._pending_id
  fut,             \* the futures created by send_command, by pid
  lock,            \* self._lock: "free" or the task that holds it
  pc,              \* position of every task inside send_command
  mypid,           \* local variable pid of send_command
  sw,              \* the writer the task wrote its block to
  dpc,             \* position of the caller of disconnect()
  cpc,             \* position of the caller of connect()
  logic_callback,  \* self._logic_callback is set
  push,            \* callback calls made by the last step, and whether one raised
  call,            \* the public method every task is in, once its request is registered
  out,             \* what the last step wrote to the socket or returned to a caller
  codec,           \* an encode/decode computation (SpecCodec)
  poll,            \* position of the coordinator inside _async_update_data (SpecPoll)
  setup            \* position of the host inside async_setup_entry (SpecSetup)

connVars == <<reader, writer, sock>>
lisVars == <<listener, lsock, loops>>
pendVars == <<pending, pending_id, fut>>
taskVars == <<pc, mypid, sw>>
vars == <<reader, writer, sock, listener, lsock, loops, pending, pending_id, fut,
          lock, pc, mypid, sw, dpc, cpc, logic_callback, push, call, out, codec,
          poll, setup>>

Socks == 1..MaxSock
Pids == 1..MaxPid

NoFut == [st |-> "none", cmd |-> 0, key |-> NoKey, val |-> << >>]
NoPush == [calls |-> << >>, raised |-> FALSE]
NoCall == [op |-> "none", id |-> NoKey]
\* who: the caller that returns or writes; tx: the block written; ret, val:
\* the value returned or the exception raised; at: the line that returns or raises
NoOut == [who |-> "none", tx |-> << >>, ret |-> "none", val |-> << >>, at |-> 0]
NoCodec == [stage |-> "none", cmd |-> 0, data |-> << >>, ok |-> TRUE, block |-> << >>,
            parsed |-> << >>]

\* DHDClient.__init__
InitClient ==
  /\ reader = 0
  /\ writer = 0
  /\ sock = [s \in Socks |-> "unused"]
  /\ listener = "none"
  /\ lsock = 0
  /\ loops = 0
  /\ pending = << >>
  /\ pending_id = 0
  /\ fut = [p \in Pids |-> NoFut]
  /\ lock = "free"
  /\ pc = [t \in Tasks |-> "idle"]
  /\ mypid = [t \in Tasks |-> 0]
  /\ sw = [t \in Tasks |-> 0]
  /\ dpc = "idle"
  /\ cpc = "idle"
  /\ logic_callback = FALSE
  /\ push = NoPush
  /\ call = [t \in Tasks |-> NoCall]
  /\ out = NoOut
  /\ poll = "idle"
  /\ setup = "none"

\* a fresh client; no encode/decode computation is under way
Init ==
  /\ InitClient
  /\ codec = NoCodec

\* a step that does not call the logic callback
Quiet == push' = NoPush

\* a step in which no caller writes a block, returns or raises
Silent == out' = NoOut

\* a caller returns value v of kind k, or raises exception k, at line l
Return(who, k, v, l) == [who |-> who, tx |-> << >>, ret |-> k, val |-> v, at |-> l]

\* a task writes block b (line 317)
Write(who, b) == [who |-> who, tx |-> b, ret |-> "none", val |-> << >>, at |-> 0]

\* ------------------------------------------------------------ connection
\* StreamWriter.is_closing(): the transport was closed locally or lost
IsClosing(s) == sock[s] \in {"reset", "closed"}

\* DHDClient.connected
Connected == writer # 0 /\ ~IsClosing(writer)

\* the connection asyncio.open_connection returns next
FreshSock == CHOOSE s \in Socks : sock[s] = "unused" /\ \A u \in Socks : sock[u] = "unused" => s <= u

CanOpen == \E s \in Socks : sock[s] = "unused"

\* a _start_listener that does not look at the task it holds
StartListenerAgain(r) ==
  listener' = "running" /\ lsock' = r /\ loops' = loops + 1

\* DHDClient._start_listener, called with the reader that connect() just
\* set: ensure_future creates a task unless the task held is not done
StartListener(r) ==
  IF listener = "running"
  THEN UNCHANGED lisVars
  ELSE listener' = "running" /\ lsock' = r /\ loops' = loops + 1

\* DHDClient.connect after open_connection has succeeded
ConnectSucceeds ==
  /\ CanOpen
  /\ reader' = FreshSock
  /\ writer' = FreshSock
  /\ sock' = [sock EXCEPT ![FreshSock] = "open"]
  /\ StartListener(FreshSock)

\* a failed connect that starts the listener all the same
ConnectFailsStarting ==
  /\ reader' = 0
  /\ writer' = 0
  /\ listener' = "running"
  /\ UNCHANGED <<sock, lsock, loops>>

\* DHDClient.connect after open_connection has failed (OSError, TimeoutError)
ConnectFails ==
  /\ reader' = 0
  /\ writer' = 0
  /\ UNCHANGED <<sock, listener, lsock, loops>>

\* --------------------------------------------------------- send_command
\* a lock that never blocks
LockFreeAlways == TRUE

\* async with self._lock: the lock can be taken
LockFree == lock = "free"

Remove(seq, p) == SelectSeq(seq, LAMBDA x : x # p)

\* the locals of a send_command call that has ended
Forget(f, t, v) == [f EXCEPT ![t] = v]

\* a future that neither a call nor _pending references
Gone == [NoFut EXCEPT !.st = "gone"]

\* the future of a call that has returned is referenced by nobody; how the
\* call ended is in out
Drop(f, pid) == [f EXCEPT ![pid] = Gone]

\* a registration that is put off until after the write
RegisterLater(pend, pid) == pend

\* line 311: self._pending[pid] = fut
Register(pend, pid) == Append(pend, pid)

\* send_command lines 305-318: register the future, build the block and
\* write it to writer w; the ValueError of _build_block leaves the lock
\* through the async with, without passing the try/finally
RegisterAndWrite(t, c, w) ==
  LET pid == pending_id + 1
      a == c.args
      b == BuildBlock(a.cmd, a.data)
  IN /\ pending_id' = pid
     /\ fut' = [fut EXCEPT ![pid] = [st |-> "pending", cmd |-> a.cmd,
                                     key |-> a.key, val |-> << >>]]
     /\ pending' = Register(pending, pid)
     /\ IF b.ok
        THEN /\ sw' = [sw EXCEPT ![t] = w]
             /\ mypid' = [mypid EXCEPT ![t] = pid]
             /\ pc' = [pc EXCEPT ![t] = "drain"]
             /\ lock' = t
             /\ call' = [call EXCEPT ![t] = [op |-> c.op, id |-> a.key]]
             /\ out' = Write(t, b.block)
        ELSE /\ pc' = [pc EXCEPT ![t] = "idle"]
             /\ lock' = "free"
             /\ out' = Return(t, "ValueError", << >>, 244)
             /\ UNCHANGED <<sw, mypid, call>>

\* a task calls send_command(command_id, data, logic_id) and waits for
\* the lock; the arguments are first used when the future is registered
SendCall(t) ==
  /\ pc[t] = "idle"
  /\ pending_id + Cardinality({u \in Tasks : pc[u] \in {"lock", "connecting"}}) < MaxPid
  /\ pc' = [pc EXCEPT ![t] = "lock"]
  /\ UNCHANGED <<connVars, lisVars, pendVars, lock, mypid, sw, dpc, cpc,
                 logic_callback, call, codec, poll,
                 setup>>
  /\ Quiet
  /\ Silent

\* the task gets the lock and runs up to its first await: either
\* open_connection (not connected) or drain (connected)
AcquireLock(t) ==
  /\ pc[t] = "lock"
  /\ LockFree
  /\ IF Connected
     THEN /\ \E c \in Calls : RegisterAndWrite(t, c, writer)
          /\ UNCHANGED <<connVars, lisVars, dpc, cpc, logic_callback>>
     ELSE /\ pc' = [pc EXCEPT ![t] = "connecting"]
          /\ lock' = t
          /\ UNCHANGED <<connVars, lisVars, pendVars, mypid, sw, dpc,
                         cpc, logic_callback, call>>
          /\ Silent
  /\ UNCHANGED <<codec, poll,
                 setup>>
  /\ Quiet

\* open_connection succeeded inside _ensure_connected
SendConnectOk(t) ==
  /\ pc[t] = "connecting"
  /\ ConnectSucceeds
  /\ \E c \in Calls : RegisterAndWrite(t, c, FreshSock)
  /\ UNCHANGED <<dpc, cpc, logic_callback, codec, poll,
                 setup>>
  /\ Quiet

\* a failed connect after which the lock stays taken
SendConnectFailHolding(t) ==
  /\ pc[t] = "connecting"
  /\ ConnectFails
  /\ pc' = [pc EXCEPT ![t] = "idle"]
  /\ out' = Return(t, "DHDConnectionError", << >>, 122)
  /\ UNCHANGED <<pendVars, lock, mypid, sw, dpc, cpc, logic_callback, call, codec, poll,
                 setup>>
  /\ Quiet

\* open_connection failed inside _ensure_connected: DHDConnectionError
SendConnectFail(t) ==
  /\ pc[t] = "connecting"
  /\ ConnectFails
  /\ pc' = [pc EXCEPT ![t] = "idle"]
  /\ lock' = "free"
  /\ out' = Return(t, "DHDConnectionError", << >>, 122)
  /\ UNCHANGED <<pendVars, mypid, sw, dpc, cpc, logic_callback, call, codec, poll,
                 setup>>
  /\ Quiet

\* await self._writer.drain() returns
DrainDone(t) ==
  /\ pc[t] = "drain"
  /\ ~IsClosing(sw[t])
  /\ pc' = [pc EXCEPT ![t] = "await"]
  /\ sw' = Forget(sw, t, 0)
  /\ UNCHANGED <<connVars, lisVars, pendVars, lock, mypid, dpc,
                 cpc, logic_callback, call, codec, poll,
                 setup>>
  /\ Quiet
  /\ Silent

\* await self._writer.drain() raises ConnectionResetError: the exception
\* leaves send_command before the try/finally is entered, so the future
\* stays in _pending unless a disconnect() has cleared it meanwhile
DrainFail(t) ==
  /\ pc[t] = "drain"
  /\ IsClosing(sw[t])
  /\ fut' = IF \E i \in 1..Len(pending) : pending[i] = mypid[t]
             THEN fut ELSE Drop(fut, mypid[t])
  /\ pc' = [pc EXCEPT ![t] = "idle"]
  /\ sw' = Forget(sw, t, 0)
  /\ mypid' = Forget(mypid, t, 0)
  /\ call' = Forget(call, t, NoCall)
  /\ lock' = "free"
  /\ out' = Return(t, "ConnectionResetError", << >>, 318)
  /\ UNCHANGED <<connVars, lisVars, pending, pending_id, dpc, cpc, logic_callback,
                 codec, poll,
                 setup>>
  /\ Quiet

\* a finally clause that leaves the entry in _pending
PopPendingSkipped(pend, pid) == pend

\* line 327, finally: self._pending.pop(pid, None)
PopPending(pend, pid) == Remove(pend, pid)

\* an end of the try statement that keeps the lock
FinishHolding(t) ==
  /\ pending' = PopPending(pending, mypid[t])
  /\ pc' = [pc EXCEPT ![t] = "idle"]
  /\ mypid' = Forget(mypid, t, 0)
  /\ call' = Forget(call, t, NoCall)
  /\ lock' = lock

\* the end of the try statement: the finally clause, then the lock is released
Finish(t) ==
  /\ pending' = PopPending(pending, mypid[t])
  /\ pc' = [pc EXCEPT ![t] = "idle"]
  /\ mypid' = Forget(mypid, t, 0)
  /\ call' = Forget(call, t, NoCall)
  /\ lock' = "free"

\* a get_logic_state that reads the state from the low byte of the id
GetLogicResultLowByte(who, resp_data) ==
  IF Len(resp_data) < 3
  THEN Return(who, "DHDProtocolError", << >>, 351)
  ELSE Return(who, IF resp_data[2] # 0 THEN "True" ELSE "False", << >>, 356)

\* get_logic_state lines 350-356 on the payload of the response
GetLogicResult(who, resp_data) ==
  IF Len(resp_data) < 3
  THEN Return(who, "DHDProtocolError", << >>, 351)
  ELSE Return(who, IF resp_data[3] # 0 THEN "True" ELSE "False", << >>, 356)

\* what the public method returns once send_command has returned resp,
\* the (command, payload) of the matched block
ResultOf(who, op, resp) ==
  IF op = "get_logic_state" THEN GetLogicResult(who, resp[2])
  ELSE IF op = "set_logic_state" THEN Return(who, "None", << >>, 370)
  ELSE Return(who, "tuple", resp, 321)

\* wait_for(fut) returns the result the listener set
AwaitResult(t) ==
  /\ pc[t] = "await"
  /\ fut[mypid[t]].st = "result"
  /\ fut' = Drop(fut, mypid[t])
  /\ Finish(t)
  /\ out' = ResultOf(t, call[t].op, fut[mypid[t]].val)
  /\ UNCHANGED <<connVars, lisVars, pending_id, sw, dpc, cpc,
                 logic_callback, codec, poll,
                 setup>>
  /\ Quiet

\* wait_for(fut) raises the exception _stop_listener set
AwaitError(t) ==
  /\ pc[t] = "await"
  /\ fut[mypid[t]].st = "disc"
  /\ fut' = Drop(fut, mypid[t])
  /\ Finish(t)
  /\ out' = Return(t, "DHDConnectionError", << >>, 321)
  /\ UNCHANGED <<connVars, lisVars, pending_id, sw, dpc, cpc,
                 logic_callback, codec, poll,
                 setup>>
  /\ Quiet

\* READ_TIMEOUT expires: wait_for cancels the future, DHDProtocolError
AwaitTimeout(t) ==
  /\ pc[t] = "await"
  /\ fut[mypid[t]].st = "pending"
  /\ fut' = Drop([fut EXCEPT ![mypid[t]].st = "cancelled"], mypid[t])
  /\ Finish(t)
  /\ out' = Return(t, "DHDProtocolError", << >>, 323)
  /\ UNCHANGED <<connVars, lisVars, pending_id, sw, dpc, cpc,
                 logic_callback, codec, poll,
                 setup>>
  /\ Quiet

\* ------------------------------------------------------------- listener
\* a match that looks at the command only
MatchesAnyLogic(cmd, data, expected_cmd, expected_logic) == cmd = expected_cmd

\* lines 196-201: the block (cmd, data) matches a future whose _dhd_match
\* is (expected_cmd, expected_logic)
Matches(cmd, data, expected_cmd, expected_logic) ==
  /\ cmd = expected_cmd
  /\ ~ (/\ expected_logic # NoKey
        /\ Len(data) >= 2
        /\ FromBytes(SubSeq(data, 1, 2)) # expected_logic)

\* lines 191-204: the first future of pend, in insertion order, that is not
\* done and matches; 0 when there is none
RECURSIVE FirstMatch(_, _, _, _)
FirstMatch(pend, f, cmd, data) ==
  IF pend = << >> THEN 0
  ELSE IF f[Head(pend)].st # "pending" THEN FirstMatch(Tail(pend), f, cmd, data)
  ELSE IF Matches(cmd, data, f[Head(pend)].cmd, f[Head(pend)].key) THEN Head(pend)
  ELSE FirstMatch(Tail(pend), f, cmd, data)

NotDone(pend, f) == {pend[i] : i \in {j \in 1..Len(pend) : f[pend[j]].st = "pending"}}

\* a dispatch loop without the break: every matching future gets the block
DeliverToEvery(pend, f, cmd, data) ==
  {p \in NotDone(pend, f) : Matches(cmd, data, f[p].cmd, f[p].key)}

\* the futures that get set_result for one block: the loop breaks after
\* the first one
DeliverTo(pend, f, cmd, data) ==
  IF FirstMatch(pend, f, cmd, data) = 0 THEN {} ELSE {FirstMatch(pend, f, cmd, data)}

\* a push path that does not look at delivered
PushCallsAlways(delivered, cb, cmd, data) ==
  IF cmd = ECP_CMD_SET_LOGIC /\ Len(data) >= 3 /\ cb
  THEN << <<FromBytes(SubSeq(data, 1, 2)), data[3] # 0>> >>
  ELSE << >>

\* lines 207-217: the calls of the logic callback made for one block
PushCalls(delivered, cb, cmd, data) ==
  IF ~delivered /\ cmd = ECP_CMD_SET_LOGIC /\ Len(data) >= 3 /\ cb
  THEN << <<FromBytes(SubSeq(data, 1, 2)), data[3] # 0>> >>
  ELSE << >>

\* a callback whose exception is not caught at line 216
AfterCallbackUncaught(raised) == IF raised THEN "crashed" ELSE "running"

\* lines 214-217: the state of the loop after the callback returned or raised
AfterCallback(raised) == "running"

\* fut.set_result(v): the future is done; the loop reads _dhd_match of
\* futures that are not done only (line 192), so it is not kept
SetResult(v) == [NoFut EXCEPT !.st = "result", !.val = v]

\* one iteration of the loop: a block arrives on the socket the listener
\* reads, is parsed and dispatched; raises says whether the callback raises.
\* The loop then evaluates self._reader for its next read (line 179)
ListenerRead(block, raises) ==
  /\ listener = "running"
  /\ lsock # 0
  /\ sock[lsock] = "open"
  /\ LET m == Parsed[block]
         to == DeliverTo(pending, fut, m.cmd, m.data)
         calls == PushCalls(to # {}, logic_callback, m.cmd, m.data)
         raised == calls # << >> /\ raises
     IN /\ fut' = [p \in Pids |->
                     IF p \in to THEN SetResult(<<m.cmd, m.data>>)
                     ELSE fut[p]]
        /\ listener' = AfterCallback(raised)
        /\ loops' = IF AfterCallback(raised) = "running" THEN loops ELSE loops - 1
        /\ lsock' = reader
        /\ push' = [calls |-> calls, raised |-> raised]
  /\ UNCHANGED <<connVars, pending, pending_id, lock, taskVars, dpc, cpc,
                 logic_callback, call, codec, poll,
                 setup>>
  /\ Silent

\* readexactly raises IncompleteReadError: the loop breaks (lines 180-182)
ListenerEOF ==
  /\ listener = "running"
  /\ lsock # 0
  /\ sock[lsock] \in {"eof", "closed"}
  /\ listener' = "eof"
  /\ lsock' = 0
  /\ loops' = loops - 1
  /\ UNCHANGED <<connVars, pendVars, lock, taskVars, dpc, cpc,
                 logic_callback, call, codec, poll,
                 setup>>
  /\ Quiet
  /\ Silent

\* line 179 raises an exception that is not IncompleteReadError: the
\* OSError of a lost connection from readexactly, or the AttributeError of
\* self._reader = None; it reaches the handler of line 221, outside the
\* while loop
ReadRaises == IF lsock = 0 THEN TRUE ELSE sock[lsock] = "reset"

ListenerCrash ==
  /\ listener = "running"
  /\ ReadRaises
  /\ listener' = "crashed"
  /\ lsock' = 0
  /\ loops' = loops - 1
  /\ UNCHANGED <<connVars, pendVars, lock, taskVars, dpc, cpc,
                 logic_callback, call, codec, poll,
                 setup>>
  /\ Quiet
  /\ Silent

\* DHDClient.set_logic_callback
SetLogicCallback ==
  /\ ~logic_callback
  /\ logic_callback' = TRUE
  /\ UNCHANGED <<connVars, lisVars, pendVars, lock, taskVars, dpc, cpc, call, codec, poll,
                 setup>>
  /\ Quiet
  /\ Silent

\* ----------------------------------------------------------- disconnect
\* a _stop_listener that does not fail the futures
FailPendingSkipped(pend, f) == f

\* fut.set_exception(DHDConnectionError("Disconnected"))
SetException == [NoFut EXCEPT !.st = "disc"]

\* a _stop_listener that sets the exception on futures that are done, too
FailPendingDone(pend, f) ==
  [p \in Pids |-> IF p \in {pend[i] : i \in 1..Len(pend)} THEN SetException ELSE f[p]]

\* _stop_listener lines 168-171: the futures after the loop over _pending
FailPending(pend, f) ==
  [p \in Pids |-> IF p \in NotDone(pend, f) THEN SetException ELSE f[p]]

\* the futures that a running send_command call holds
Awaited == {mypid[t] : t \in Tasks} \ {0}

\* after _pending.clear() a future that no call holds is referenced by nobody
DropCleared(pend, f) ==
  [p \in Pids |-> IF p \in {pend[i] : i \in 1..Len(pend)} \ Awaited
                  THEN Gone ELSE f[p]]

\* _stop_listener line 171
ClearPending(pend) == << >>

\* disconnect() up to its await: _stop_listener, then writer.close()
DisconnectCall ==
  /\ dpc = "idle"
  /\ listener' = "none"
  /\ lsock' = 0
  /\ loops' = IF listener = "running" THEN loops - 1 ELSE loops
  /\ fut' = DropCleared(pending, FailPending(pending, fut))
  /\ pending' = ClearPending(pending)
  /\ IF writer # 0
     THEN /\ sock' = [sock EXCEPT ![writer] = "closed"]
          /\ dpc' = "closing"
          /\ Silent
     ELSE /\ UNCHANGED <<sock, dpc>>
          /\ out' = Return(DisconnectCaller, "None", << >>, 131)
  /\ UNCHANGED <<reader, writer, pending_id, lock, taskVars, cpc,
                 logic_callback, call, codec, poll,
                 setup>>
  /\ Quiet

\* wait_closed() returned or raised OSError: the finally clause
DisconnectFinish ==
  /\ dpc = "closing"
  /\ writer' = 0
  /\ reader' = 0
  /\ dpc' = "idle"
  /\ out' = Return(DisconnectCaller, "None", << >>, 140)
  /\ UNCHANGED <<sock, lisVars, pendVars, lock, taskVars, cpc, logic_callback,
                 call, codec, poll,
                 setup>>
  /\ Quiet

\* -------------------------------------------------------------- connect
\* a connect() that never takes the early return
AlreadyConnectedNever == FALSE

\* line 108: if self.connected
AlreadyConnected == Connected

\* a caller calls connect(): it returns at line 109 when the client is
\* connected, and awaits open_connection when it is not
ConnectCall ==
  /\ cpc = "idle"
  /\ IF AlreadyConnected
     THEN /\ out' = Return(ConnectCaller, "None", << >>, 109)
          /\ UNCHANGED cpc
     ELSE /\ cpc' = "connecting"
          /\ Silent
  /\ UNCHANGED <<connVars, lisVars, pendVars, lock, taskVars, dpc, logic_callback,
                 call, codec, poll,
                 setup>>
  /\ Quiet

ConnectOk ==
  /\ cpc = "connecting"
  /\ ConnectSucceeds
  /\ cpc' = "idle"
  /\ out' = Return(ConnectCaller, "None", << >>, 126)
  /\ UNCHANGED <<pendVars, lock, taskVars, dpc, logic_callback, call, codec, poll,
                 setup>>
  /\ Quiet

ConnectFail ==
  /\ cpc = "connecting"
  /\ ConnectFails
  /\ cpc' = "idle"
  /\ out' = Return(ConnectCaller, "DHDConnectionError", << >>, 122)
  /\ UNCHANGED <<pendVars, lock, taskVars, dpc, logic_callback, call, codec, poll,
                 setup>>
  /\ Quiet

\* ---------------------------------------------------------- environment
\* the client still holds the connection: its fate can be observed
InUse(s) == s \in {reader, writer} \/ (listener = "running" /\ lsock = s) \/ \E t \in Tasks : sw[t] = s

\* the device closes the connection: the reader gets EOF, the transport
\* stays open (is_closing() is False)
PeerEOF(s) ==
  /\ InUse(s)
  /\ sock[s] = "open"
  /\ sock' = [sock EXCEPT ![s] = "eof"]
  /\ UNCHANGED <<reader, writer, lisVars, pendVars, lock, taskVars, dpc, cpc,
                 logic_callback, call, codec, poll,
                 setup>>
  /\ Quiet
  /\ Silent

\* the connection is lost with an error: the transport is closed
ConnReset(s) ==
  /\ InUse(s)
  /\ sock[s] \in {"open", "eof"}
  /\ sock' = [sock EXCEPT ![s] = "reset"]
  /\ UNCHANGED <<reader, writer, lisVars, pendVars, lock, taskVars, dpc, cpc,
                 logic_callback, call, codec, poll,
                 setup>>
  /\ Quiet
  /\ Silent

Next ==
  \/ \E t \in Tasks : SendCall(t)
  \/ \E t \in Tasks : AcquireLock(t)
  \/ \E t \in Tasks : SendConnectOk(t)
  \/ \E t \in Tasks : SendConnectFail(t)
  \/ \E t \in Tasks : DrainDone(t)
  \/ \E t \in Tasks : DrainFail(t)
  \/ \E t \in Tasks : AwaitResult(t)
  \/ \E t \in Tasks : AwaitError(t)
  \/ \E t \in Tasks : AwaitTimeout(t)
  \/ \E b \in RxBlocks, r \in BOOLEAN : ListenerRead(b, r)
  \/ ListenerEOF
  \/ ListenerCrash
  \/ SetLogicCallback
  \/ DisconnectCall
  \/ DisconnectFinish
  \/ \E s \in Socks : PeerEOF(s)
  \/ \E s \in Socks : ConnReset(s)

\* the tasks of send_command, the listener, a caller of disconnect() and
\* the device
Spec == Init /\ [][Next]_vars

\* every await of send_command ends: open_connection returns or fails
\* within CONNECT_TIMEOUT, drain() returns or raises, wait_for returns,
\* raises or times out after READ_TIMEOUT, and asyncio.Lock hands the lock
\* to its waiters in the order of their arrival
Fairness ==
  \A t \in Tasks :
    /\ WF_vars(SendConnectOk(t) \/ SendConnectFail(t))
    /\ WF_vars(DrainDone(t) \/ DrainFail(t))
    /\ WF_vars(AwaitResult(t) \/ AwaitError(t) \/ AwaitTimeout(t))
    /\ SF_vars(AcquireLock(t))

\* the blocks of a device that only replies: the reply to a logic-state
\* request
ReplyBlocks == { BuildBlock(ECP_CMD_SET_LOGIC, ToBytes2(258) \o <<1>>).block }

\* the tasks of send_command, the listener without a logic callback, a
\* caller of disconnect() and a device that only replies
NextSend ==
  \/ \E t \in Tasks : SendCall(t)
  \/ \E t \in Tasks : AcquireLock(t)
  \/ \E t \in Tasks : SendConnectOk(t)
  \/ \E t \in Tasks : SendConnectFail(t)
  \/ \E t \in Tasks : DrainDone(t)
  \/ \E t \in Tasks : DrainFail(t)
  \/ \E t \in Tasks : AwaitResult(t)
  \/ \E t \in Tasks : AwaitError(t)
  \/ \E t \in Tasks : AwaitTimeout(t)
  \/ \E b \in ReplyBlocks : ListenerRead(b, FALSE)
  \/ ListenerEOF
  \/ ListenerCrash
  \/ DisconnectCall
  \/ DisconnectFinish
  \/ \E s \in Socks : PeerEOF(s)
  \/ \E s \in Socks : ConnReset(s)

FairSpec == Init /\ [][NextSend]_vars /\ Fairness

\* the task that calls send_command next to the caller of connect()
Sender == "t1"

\* one task of send_command, the listener without a logic callback, a caller
\* of disconnect(), the device, and a task that calls connect() or
\* test_connection()
NextConnect ==
  \/ SendCall(Sender)
  \/ AcquireLock(Sender)
  \/ SendConnectOk(Sender)
  \/ SendConnectFail(Sender)
  \/ DrainDone(Sender)
  \/ DrainFail(Sender)
  \/ AwaitResult(Sender)
  \/ AwaitError(Sender)
  \/ AwaitTimeout(Sender)
  \/ \E b \in ReplyBlocks : ListenerRead(b, FALSE)
  \/ ListenerEOF
  \/ ListenerCrash
  \/ DisconnectCall
  \/ DisconnectFinish
  \/ \E s \in Socks : PeerEOF(s)
  \/ \E s \in Socks : ConnReset(s)
  \/ ConnectCall
  \/ ConnectOk
  \/ ConnectFail

SpecConnect == Init /\ [][NextConnect]_vars

\* ------------------------------------------------ the coordinator poll
\* the task of the coordinator, and the task of a switch entity that calls
\* set_logic_state
Poller == Sender
Switch == "t2"
PollCaller == "poll"

\* the coordinator waits inside a call of the client
PollAwaits ==
  \/ dpc # "idle"
  \/ cpc # "idle"
  \/ pc[Poller] \in {"connecting", "drain", "await"}
  \/ pc[Poller] = "lock" /\ lock # "free"

\* the coordinator is between two awaits of _async_update_data: it runs
\* on, and no other task or callback runs before it awaits again
PollRuns == poll # "idle" /\ ~PollAwaits

\* connections and request ids that nothing refers to any more are
\* forgotten, so that their numbers can be used again
Forgotten(s) == IF InUse(s) THEN sock[s] ELSE "unused"

NoRequests == pending = << >> /\ Awaited = {}

\* POLL_INTERVAL has passed: _async_update_data starts and tests
\* client.connected (line 99)
PollStart ==
  /\ poll = "idle"
  /\ poll' = IF Connected THEN "query" ELSE "disconnect"
  /\ sock' = [s \in Socks |-> Forgotten(s)]
  /\ IF NoRequests
     THEN pending_id' = 0 /\ fut' = [p \in Pids |-> NoFut]
     ELSE UNCHANGED <<pending_id, fut>>
  /\ UNCHANGED <<reader, writer, lisVars, pending, lock, taskVars, dpc, cpc,
                 logic_callback, call, codec, setup>>
  /\ Quiet
  /\ Silent

\* lines 102 and 116: await self.client.disconnect()
PollDisconnect ==
  /\ poll \in {"disconnect", "cleanup"}
  /\ out.who # DisconnectCaller
  /\ DisconnectCall

\* disconnect() has returned: connect() comes next (line 103), or
\* UpdateFailed is raised (line 117)
PollAfterDisconnect ==
  /\ poll \in {"disconnect", "cleanup"}
  /\ out.who = DisconnectCaller
  /\ IF poll = "disconnect"
     THEN poll' = "connect" /\ Silent
     ELSE poll' = "idle" /\ out' = Return(PollCaller, "UpdateFailed", << >>, 117)
  /\ UNCHANGED <<connVars, lisVars, pendVars, lock, taskVars, dpc, cpc,
                 logic_callback, call, codec, setup>>
  /\ Quiet

\* line 103: await self.client.connect()
PollConnect ==
  /\ poll = "connect"
  /\ out.who # ConnectCaller
  /\ ConnectCall

\* connect() has returned (the queries come next) or raised
\* DHDConnectionError (UpdateFailed, line 106)
PollAfterConnect ==
  /\ poll = "connect"
  /\ out.who = ConnectCaller
  /\ IF out.ret = "None"
     THEN poll' = "query" /\ Silent
     ELSE poll' = "idle" /\ out' = Return(PollCaller, "UpdateFailed", << >>, 106)
  /\ UNCHANGED <<connVars, lisVars, pendVars, lock, taskVars, dpc, cpc,
                 logic_callback, call, codec, setup>>
  /\ Quiet

\* line 114: await self.client.get_logic_state(logic_id) enters send_command
PollQuery ==
  /\ poll = "query"
  /\ out.who # Poller
  /\ SendCall(Poller)

\* the coordinator's send_command is the one of get_logic_state
PollAcquireLock ==
  /\ poll = "query"
  /\ AcquireLock(Poller)
  /\ call'[Poller].op \in {"none", "get_logic_state"}
  /\ out'.ret # "ValueError"

PollSendConnectOk ==
  /\ SendConnectOk(Poller)
  /\ call'[Poller].op = "get_logic_state"

\* get_logic_state has returned or raised: the states are returned (line
\* 125), DHDConnectionError leads to disconnect() (line 116),
\* DHDProtocolError to UpdateFailed (line 121), and any other exception
\* leaves _async_update_data as it is
PollAfterQuery ==
  /\ poll = "query"
  /\ out.who = Poller
  /\ out.ret # "none"
  /\ IF out.ret \in {"True", "False"}
     THEN poll' = "idle" /\ out' = Return(PollCaller, "states", << >>, 125)
     ELSE IF out.ret = "DHDConnectionError"
     THEN poll' = "cleanup" /\ Silent
     ELSE IF out.ret = "DHDProtocolError"
     THEN poll' = "idle" /\ out' = Return(PollCaller, "UpdateFailed", << >>, 121)
     ELSE poll' = "idle" /\ out' = Return(PollCaller, out.ret, << >>, 114)
  /\ UNCHANGED <<connVars, lisVars, pendVars, lock, taskVars, dpc, cpc,
                 logic_callback, call, codec, setup>>
  /\ Quiet

\* the switch entity calls set_logic_state (switch.py lines 76 and 82)
SwitchAcquireLock ==
  /\ AcquireLock(Switch)
  /\ call'[Switch].op \in {"none", "set_logic_state"}
  /\ out'.ret # "ValueError"

SwitchSendConnectOk ==
  /\ SendConnectOk(Switch)
  /\ call'[Switch].op = "set_logic_state"

\* the device answers a request on the connection the request came in
Answer ==
  /\ lsock = writer
  /\ \E t \in Tasks : pc[t] \in {"drain", "await"} /\ fut[mypid[t]].st = "pending"
  /\ \E b \in ReplyBlocks : ListenerRead(b, FALSE)

\* the coordinator, a switch entity, the listener and the device; while
\* the coordinator runs, nothing else does. disconnect() is called by the
\* coordinator only, so no request of the coordinator is failed by it
NextPoll ==
  \/ PollStart
  \/ PollDisconnect
  \/ DisconnectFinish
  \/ PollAfterDisconnect
  \/ PollConnect
  \/ ConnectOk
  \/ ConnectFail
  \/ PollAfterConnect
  \/ PollQuery
  \/ PollAcquireLock
  \/ PollSendConnectOk
  \/ SendConnectFail(Poller)
  \/ DrainDone(Poller)
  \/ DrainFail(Poller)
  \/ AwaitResult(Poller)
  \/ AwaitTimeout(Poller)
  \/ PollAfterQuery
  \/ ~PollRuns /\ SendCall(Switch)
  \/ ~PollRuns /\ SwitchAcquireLock
  \/ ~PollRuns /\ SwitchSendConnectOk
  \/ ~PollRuns /\ SendConnectFail(Switch)
  \/ ~PollRuns /\ DrainDone(Switch)
  \/ ~PollRuns /\ DrainFail(Switch)
  \/ ~PollRuns /\ AwaitResult(Switch)
  \/ ~PollRuns /\ AwaitError(Switch)
  \/ ~PollRuns /\ AwaitTimeout(Switch)
  \/ ~PollRuns /\ Answer
  \/ ~PollRuns /\ ListenerEOF
  \/ ~PollRuns /\ ListenerCrash
  \/ ~PollRuns /\ \E s \in Socks : PeerEOF(s)
  \/ ~PollRuns /\ \E s \in Socks : ConnReset(s)

\* the connection of a device that is reachable and stays so is not lost
Loss == \E s \in Socks : sock[s] = "open" /\ (PeerEOF(s) \/ ConnReset(s))

\* the coordinator polls again and again and every await ends; a device
\* that is reachable accepts a connection that is tried again and again,
\* answers a request before READ_TIMEOUT when requests keep being made,
\* and resets a connection it has closed when the client keeps using it;
\* the listener task gets to run
FairPoll ==
  /\ WF_vars(PollStart)
  /\ WF_vars(PollDisconnect \/ PollAfterDisconnect \/ PollConnect \/ PollAfterConnect
               \/ PollQuery \/ PollAcquireLock \/ PollAfterQuery)
  /\ WF_vars(DisconnectFinish)
  /\ WF_vars(ConnectOk \/ ConnectFail)
  /\ SF_vars(ConnectOk)
  /\ \A t \in Tasks :
       /\ WF_vars(SendConnectOk(t) \/ SendConnectFail(t))
       /\ SF_vars(SendConnectOk(t))
       /\ WF_vars(DrainDone(t) \/ DrainFail(t))
       /\ WF_vars(AwaitResult(t) \/ AwaitError(t) \/ AwaitTimeout(t))
       /\ SF_vars(AwaitResult(t))
  /\ SF_vars(~PollRuns /\ SwitchAcquireLock)
  /\ SF_vars(~PollRuns /\ Answer)
  /\ SF_vars(~PollRuns /\ (ListenerEOF \/ ListenerCrash))
  /\ SF_vars(~PollRuns /\ \E s \in Socks : sock[s] = "eof" /\ ConnReset(s))

SpecPoll == Init /\ [][NextPoll]_vars /\ FairPoll

\* ------------------------------------------------ async_setup_entry
SetupCaller == "setup"

\* async_setup_entry is between two of its awaits (connect() at line 29,
\* the first refresh at line 36): it runs on before anything else does
SetupRuns == setup \in {"connect", "refresh"} /\ cpc = "idle" /\ poll = "idle"

\* lines 23-26: the host calls async_setup_entry, which builds the client
SetupStart ==
  /\ setup = "none"
  /\ setup' = "connect"
  /\ UNCHANGED <<connVars, lisVars, pendVars, lock, taskVars, dpc, cpc,
                 logic_callback, call, codec, poll>>
  /\ Quiet
  /\ Silent

\* line 29: await client.connect()
SetupConnect ==
  /\ setup = "connect"
  /\ out.who # ConnectCaller
  /\ ConnectCall

\* connect() has returned or raised. OSError and TimeoutError become
\* ConfigEntryNotReady (lines 30-33), any other exception leaves
\* async_setup_entry as it is; after a return the coordinator is built
\* (line 35), which registers the push callback (coordinator.py line 58)
SetupAfterConnect ==
  /\ setup = "connect"
  /\ out.who = ConnectCaller
  /\ IF out.ret = "None"
     THEN /\ setup' = "refresh"
          /\ logic_callback' = TRUE
          /\ Silent
     ELSE /\ setup' = "failed"
          /\ UNCHANGED logic_callback
          /\ IF out.ret \in {"OSError", "TimeoutError"}
             THEN out' = Return(SetupCaller, "ConfigEntryNotReady", << >>, 31)
             ELSE out' = Return(SetupCaller, out.ret, << >>, 29)
  /\ UNCHANGED <<connVars, lisVars, pendVars, lock, taskVars, dpc, cpc, call, codec,
                 poll>>
  /\ Quiet

\* line 36: the first refresh runs _async_update_data once
SetupRefresh ==
  /\ setup = "refresh"
  /\ out.who # PollCaller
  /\ PollStart

\* the first refresh is over: with states the entry is loaded and the
\* entities are set up (lines 38-45); a failed refresh ends the setup
SetupAfterRefresh ==
  /\ setup = "refresh"
  /\ poll = "idle"
  /\ out.who = PollCaller
  /\ IF out.ret = "states"
     THEN setup' = "loaded" /\ out' = Return(SetupCaller, "True", << >>, 45)
     ELSE setup' = "failed" /\ out' = Return(SetupCaller, out.ret, << >>, 36)
  /\ UNCHANGED <<connVars, lisVars, pendVars, lock, taskVars, dpc, cpc,
                 logic_callback, call, codec, poll>>
  /\ Quiet

\* the entry is loaded: the coordinator polls and the switch entities exist
Loaded == setup = "loaded"

\* neither async_setup_entry nor the coordinator is running
Yielded == ~SetupRuns /\ ~PollRuns

\* the setup of the entry, then the coordinator, a switch entity, the
\* listener and the device
NextSetup ==
  \/ SetupStart
  \/ SetupConnect
  \/ ConnectOk
  \/ ConnectFail
  \/ SetupAfterConnect
  \/ SetupRefresh
  \/ SetupAfterRefresh
  \/ Loaded /\ PollStart
  \/ PollDisconnect
  \/ DisconnectFinish
  \/ PollAfterDisconnect
  \/ PollConnect
  \/ PollAfterConnect
  \/ PollQuery
  \/ PollAcquireLock
  \/ PollSendConnectOk
  \/ SendConnectFail(Poller)
  \/ DrainDone(Poller)
  \/ DrainFail(Poller)
  \/ AwaitResult(Poller)
  \/ AwaitTimeout(Poller)
  \/ PollAfterQuery
  \/ Loaded /\ Yielded /\ SendCall(Switch)
  \/ Loaded /\ Yielded /\ SwitchAcquireLock
  \/ Yielded /\ SwitchSendConnectOk
  \/ Yielded /\ SendConnectFail(Switch)
  \/ Yielded /\ DrainDone(Switch)
  \/ Yielded /\ DrainFail(Switch)
  \/ Yielded /\ AwaitResult(Switch)
  \/ Yielded /\ AwaitError(Switch)
  \/ Yielded /\ AwaitTimeout(Switch)
  \/ Yielded /\ Answer
  \/ Yielded /\ ListenerEOF
  \/ Yielded /\ ListenerCrash
  \/ Yielded /\ \E s \in Socks : PeerEOF(s)
  \/ Yielded /\ \E s \in Socks : ConnReset(s)

SpecSetup == Init /\ [][NextSetup]_vars

\* ------------------------------------------------- the codec on its own
\* command ids: 0, 1, the logic-state command, an id whose four bytes
\* differ (0x01020304), and 0x7FFFFFFF, the largest integer TLC holds
CodecCmds == {0, 1, ECP_CMD_SET_LOGIC, 16909060, 2147483647}

\* payloads of 0..MaxData bytes: all zero, all 0xFF, counting up, and
\* counting down from 0xFF
CodecPayloads ==
  UNION { { [i \in 1..n |-> 0], [i \in 1..n |-> 255], [i \in 1..n |-> i],
            [i \in 1..n |-> 256 - i] } : n \in 0..MaxData }

\* length bytes of blocks as they may come off the wire: the values
\* _build_block writes, and values it never writes
RawLengths == {0, 1, 3, 8, 9, 10, 16, 255}

\* blocks as they may come off the wire: 16 bytes whose first byte is any
\* of RawLengths, with bytes 6..13 and bytes 14-15 all different, and one
\* block that is a byte short
RawBlocks ==
  { <<n, 0>> \o ToBytes4(c) \o <<101, 102, 103, 104, 105, 106, 107, 108, 201, 202>> :
      n \in RawLengths, c \in CodecCmds }
  \cup { <<n, 0>> \o ToBytes4(c) \o <<0, 0, 0, 0, 0, 0, 0, 0, 0, 0>> :
      n \in RawLengths, c \in CodecCmds }
  \cup { <<3, 0>> \o ToBytes4(ECP_CMD_SET_LOGIC) \o <<1, 2, 1, 0, 0, 0, 0, 0, 0>> }

\* a call _build_block(cmd, data) about to be made, or a call
\* _parse_block(block) on a block read from the wire
InitCodec ==
  /\ InitClient
  /\ codec \in { [NoCodec EXCEPT !.stage = "input", !.cmd = c, !.data = d] :
                   c \in CodecCmds, d \in CodecPayloads }
               \cup { [NoCodec EXCEPT !.stage = "raw", !.block = b] : b \in RawBlocks }

clientVars == <<reader, writer, sock, listener, lsock, loops, pending, pending_id, fut,
                lock, pc, mypid, sw, dpc, cpc, logic_callback, push, call, out,
                poll, setup>>

\* _build_block(codec.cmd, codec.data) returns a block or raises ValueError
Encode ==
  /\ codec.stage = "input"
  /\ LET b == BuildBlock(codec.cmd, codec.data)
     IN codec' = [codec EXCEPT !.stage = "built", !.ok = b.ok, !.block = b.block]
  /\ UNCHANGED clientVars

\* _parse_block(block) on the block built: DHDProtocolError unless the
\* block has 16 bytes, the tuple (length, command_id, data) otherwise
Decode ==
  /\ codec.stage = "built"
  /\ codec.ok
  /\ IF Len(codec.block) # ECP_BLOCK_SIZE
     THEN codec' = [codec EXCEPT !.stage = "parse_error"]
     ELSE LET r == ParseBlock(codec.block)
          IN codec' = [codec EXCEPT !.stage = "parsed",
                                    !.parsed = <<r.length, r.cmd, r.data>>]
  /\ UNCHANGED clientVars

\* _parse_block(block) on a block read from the wire
DecodeRaw ==
  /\ codec.stage = "raw"
  /\ IF Len(codec.block) # ECP_BLOCK_SIZE
     THEN codec' = [codec EXCEPT !.stage = "rejected"]
     ELSE LET r == ParseBlock(codec.block)
          IN codec' = [codec EXCEPT !.stage = "decoded",
                                    !.parsed = <<r.length, r.cmd, r.data>>]
  /\ UNCHANGED clientVars

NextCodec ==
  \/ Encode
  \/ Decode
  \/ DecodeRaw

SpecCodec == InitCodec /\ [][NextCodec]_vars

\* ================================================================ claims
\* the futures completed with a block by the step
Completed == {p \in Pids : fut[p].st = "pending" /\ fut'[p].st = "result"}

InPending(p) == \E i \in 1..Len(pending) : pending[i] = p

Pos(p) == CHOOSE i \in 1..Len(pending) : pending[i] = p

\* the variables no iteration of the listener loop changes
ListenerKeeps == UNCHANGED <<connVars, pending, pending_id, lock, taskVars, dpc, cpc,
                             logic_callback>>

\* the matching rule as the specification states it
SpecMatches(cmd, data, C, K) ==
  /\ cmd = C
  /\ \/ K = NoKey
     \/ (Len(data) >= 2 /\ data[1] * 256 + data[2] = K)

\* the set of not yet completed requests the specification's rule selects
SpecCandidates(m) ==
  {p \in NotDone(pending, fut) : SpecMatches(m.cmd, m.data, fut[p].cmd, fut[p].key)}

\* C1: in the dispatch of a block a not yet completed pending request is
\* matched iff the commands are equal and the request has no secondary key
\* or the payload has at least 2 bytes whose big-endian value is the key:
\* a block completes a request only if the rule selects that request, and
\* completes one whenever the rule selects some request.
C1_MatchIffSpec ==
  [][\A b \in RxBlocks :
       (ListenerKeeps /\ ListenerRead(b, push'.raised)) =>
         /\ Completed \subseteq SpecCandidates(Parsed[b])
         /\ (SpecCandidates(Parsed[b]) # {} => Completed # {})]_vars

\* C2: every block completes at most one pending request; when several not
\* yet completed requests match, the one registered first gets the block's
\* (command, payload) and all the others stay as they were.
C2_FirstMatchOnly ==
  [][\A b \in RxBlocks :
       (ListenerKeeps /\ ListenerRead(b, push'.raised)) =>
         LET m == Parsed[b]
             M == {p \in NotDone(pending, fut) :
                     Matches(m.cmd, m.data, fut[p].cmd, fut[p].key)}
         IN /\ Cardinality(Completed) <= 1
            /\ Completed \subseteq M
            /\ M # {} => \E p \in M : /\ Completed = {p}
                                      /\ fut'[p].val = <<m.cmd, m.data>>
                                      /\ \A q \in M : Pos(p) <= Pos(q)
            /\ \A q \in Pids \ Completed : fut'[q] = fut[q]
            /\ pending' = pending]_vars

\* two requests in _pending that match the same block: the earlier one has
\* it, the later one is still pending
C2_Witness ==
  \E i, j \in 1..Len(pending) :
    /\ i < j
    /\ fut[pending[i]].st = "result"
    /\ fut[pending[i]].val # << >>
    /\ fut[pending[j]].st = "pending"
    /\ Matches(fut[pending[i]].val[1], fut[pending[i]].val[2],
               fut[pending[j]].cmd, fut[pending[j]].key)

\* C3: when the listener loop ends on a closed connection (short read),
\* every still pending request is completed with a connection-lost error
\* and the in-flight set is emptied.
C3_EofFailsPending ==
  [][ListenerEOF =>
       /\ pending' = << >>
       /\ \A p \in NotDone(pending, fut) : fut'[p].st = "disc"]_vars

\* C4: a disconnect() called while a send_command awaits its reply
\* completes that request with the Disconnected error, which then stays
\* until the caller takes it, and empties the in-flight set; when
\* disconnect() returns, connected is false.
C4_DisconnectFailsAwaiting ==
  [][/\ DisconnectCall =>
          /\ pending' = << >>
          /\ \A t \in Tasks :
               (pc[t] = "await" /\ fut[mypid[t]].st = "pending")
                 => fut'[mypid[t]].st = "disc"
     /\ \A t \in Tasks :
          (pc[t] = "await" /\ fut[mypid[t]].st = "disc")
            => \/ pc'[t] = "await" /\ fut'[mypid[t]].st = "disc"
               \/ AwaitError(t) /\ out'.ret = "DHDConnectionError"
     /\ ((DisconnectCall \/ DisconnectFinish) /\ dpc' = "idle") => ~Connected']_vars

\* a caller is awaiting a future that disconnect() has failed, while
\* disconnect() is still closing the socket
C4_Witness ==
  \E t \in Tasks :
    /\ pc[t] = "await"
    /\ fut[mypid[t]].st = "disc"
    /\ pending = << >>
    /\ dpc = "closing"

\* C5: when send_command fails with Timeout its request is out of the
\* in-flight set, and no later block is delivered to it: the future of a
\* call that has ended is not in _pending and is never completed.
C5_TimeoutRemoves ==
  /\ [](\A p \in Pids : fut[p].st = "gone" => ~InPending(p))
  /\ [][\A p \in Pids : fut[p].st = "gone" => fut'[p] = fut[p]]_vars
  /\ [][\A t \in Tasks : AwaitTimeout(t) =>
          /\ out' = Return(t, "DHDProtocolError", << >>, 323)
          /\ fut'[mypid[t]].st = "gone"
          /\ pending' = Remove(pending, mypid[t])]_vars

\* a request has just timed out and the listener still dispatches blocks
C5_Witness ==
  /\ out.ret = "DHDProtocolError"
  /\ out.at = 323
  /\ \E p \in Pids : fut[p].st = "gone" /\ ~InPending(p)
  /\ listener = "running"
  /\ lsock # 0
  /\ sock[lsock] = "open"

\* C6: at most one caller is between the write of its block and the end
\* of drain(), and that caller holds the lock.
C6_WriteExclusive ==
  /\ Cardinality({t \in Tasks : pc[t] = "drain"}) <= 1
  /\ \A t \in Tasks : pc[t] = "drain" => lock = t

\* one caller is in drain() while another one waits for the lock
C6_Witness ==
  \E t, u \in Tasks : t # u /\ pc[t] = "drain" /\ pc[u] = "lock"

\* C7: awaiting the reply is not gated by the write lock: while one
\* send_command awaits its reply, another one that wants to send can
\* register its request and write its block.
C7_AwaitNotGated ==
  \A t, u \in Tasks :
    (t # u /\ pc[t] = "await" /\ pc[u] = "lock") => ENABLED AcquireLock(u)

C9_HandlerIsolated ==
  [][\A b \in RxBlocks :
       (push'.raised /\ ListenerRead(b, TRUE)) => listener' = "running"]_vars

\* the handler has raised and the listener can still read blocks
C9_Witness ==
  /\ push.raised
  /\ push.calls # << >>
  /\ listener = "running"
  /\ lsock # 0
  /\ sock[lsock] = "open"

\* the handler calls the specification asks for, from the bytes of the block
ExpectedPush(b, delivered) ==
  IF /\ SubSeq(b, 3, 6) = ToBytes4(ECP_CMD_SET_LOGIC)
     /\ b[1] >= 3
     /\ ~delivered
  THEN << <<b[7] * 256 + b[8], b[9] # 0>> >>
  ELSE << >>

\* C10: for every block the listener reads, the registered handler is
\* called exactly once with (logic id, state byte # 0) if the block has the
\* logic-state command, at least 3 payload bytes and was not delivered to
\* a pending request, and is not called at all for any other block.
C10_PushExactlyOnce ==
  [][\A b \in RxBlocks :
       (logic_callback /\ ListenerKeeps /\ ListenerRead(b, push'.raised)) =>
          push'.calls = ExpectedPush(b, Completed # {})]_vars

\* the handler was called once for an undelivered logic-state block
C10_Witness ==
  /\ logic_callback
  /\ Len(push.calls) = 1
  /\ push.calls[1] = <<1, TRUE>>

\* the logic id a payload of at least 2 bytes carries
IdOf(data) == data[1] * 256 + data[2]

\* C11: a block that carries a logic id different from the secondary key
\* of a request never completes that request, and a completed request holds
\* the (command, payload) of a block with the request's command; so when
\* get_logic_state(K) returns a state, the send_command result it is taken
\* from has the logic-state command, at least 3 payload bytes of which the
\* first two encode K, and the state is the third byte # 0.
C11_StateFromOwnId ==
  /\ [][\A b \in RxBlocks :
          (ListenerKeeps /\ ListenerRead(b, push'.raised)) =>
             \A p \in Completed :
               /\ Parsed[b].cmd = fut[p].cmd
               /\ fut'[p].val = <<Parsed[b].cmd, Parsed[b].data>>
               /\ (fut[p].key # NoKey /\ Len(Parsed[b].data) >= 2)
                    => IdOf(Parsed[b].data) = fut[p].key]_vars
  /\ [][\A t \in Tasks :
          (call[t].op = "get_logic_state" /\ AwaitResult(t)
             /\ out'.ret \in {"True", "False"}) =>
            LET resp == fut[mypid[t]].val
            IN /\ resp[1] = ECP_CMD_SET_LOGIC
               /\ Len(resp[2]) >= 3
               /\ IdOf(resp[2]) = call[t].id
               /\ (out'.ret = "True") <=> (resp[2][3] # 0)]_vars

\* get_logic_state(258) awaits its reply while a block for logic id 1 has
\* just been handled as a push
C11_Witness ==
  /\ push.calls = << <<1, TRUE>> >>
  /\ \E t \in Tasks :
       /\ call[t] = [op |-> "get_logic_state", id |-> 258]
       /\ pc[t] = "await"
       /\ fut[mypid[t]].st = "pending"

\* C12: connect() called while the client is connected returns at once: no
\* open_connection is awaited, no listener is started, and reader, writer,
\* the connections and the in-flight set are unchanged.
C12_ConnectTwiceNoop ==
  [][(Connected /\ ConnectCall) =>
       /\ out' = Return(ConnectCaller, "None", << >>, 109)
       /\ cpc' = "idle"
       /\ UNCHANGED <<reader, writer, sock, listener, lsock, loops, pending, pending_id, fut>>]_vars

\* connect() has returned early on a connected client with a request in flight
C12_Witness ==
  /\ out = Return(ConnectCaller, "None", << >>, 109)
  /\ Connected
  /\ listener = "running"
  /\ pending # << >>

\* C13: when open_connection fails, connect() raises DHDConnectionError,
\* connected is false afterwards and the call has started no listener loop.
C13_ConnectFailure ==
  [][ConnectFail =>
       /\ out' = Return(ConnectCaller, "DHDConnectionError", << >>, 122)
       /\ ~Connected'
       /\ UNCHANGED <<listener, lsock>>]_vars

\* connect() has failed on a client that has no listener
C13_Witness ==
  /\ out = Return(ConnectCaller, "DHDConnectionError", << >>, 122)
  /\ ~Connected
  /\ listener = "none"

\* C14: disconnect() never fails, and whenever it returns connected is
\* false, no listener loop is running and the in-flight set is empty.
C14_DisconnectTotal ==
  [][out'.who = DisconnectCaller =>
       /\ out'.ret = "None"
       /\ ~Connected'
       /\ listener' # "running"
       /\ pending' = << >>]_vars

\* C15: a send_command that finds the client not connected holds the lock
\* and has registered nothing while it connects; when the connection is
\* established the listener is running and the request is registered and
\* written to the new connection; when it fails the call raises
\* DHDConnectionError, writes nothing, leaves _pending and the futures as
\* they were and releases the lock.
C15_ConnectBeforeSend ==
  /\ [](\A t \in Tasks :
          pc[t] = "connecting" => (lock = t /\ mypid[t] = 0 /\ call[t] = NoCall))
  /\ [][\A t \in Tasks :
          (pc[t] = "connecting" /\ SendConnectOk(t)) =>
             /\ Connected'
             /\ listener' = "running"
             /\ pending_id' = pending_id + 1
             /\ pending' = Append(pending, pending_id')
             /\ out'.tx # << >> => (sw'[t] = writer' /\ sock'[writer'] = "open")]_vars
  /\ [][\A t \in Tasks :
          (pc[t] = "connecting" /\ SendConnectFail(t)) =>
             /\ out' = Return(t, "DHDConnectionError", << >>, 122)
             /\ ~Connected'
             /\ UNCHANGED <<pending, pending_id, fut>>
             /\ lock' = "free"
             /\ pc'[t] = "idle"]_vars

\* the connect inside send_command has failed, the lock is free and the
\* other task waits for it
C15_Witness ==
  \E t, u \in Tasks :
    /\ t # u
    /\ out = Return(t, "DHDConnectionError", << >>, 122)
    /\ lock = "free"
    /\ pending = << >>
    /\ pc[u] = "lock"

\* C16: every send_command call ends: a task that has called send_command
\* is eventually outside of it again, whether it waits for the lock, for
\* the connection, for drain() or for its reply.
C16_SendTerminates ==
  \A t \in Tasks : (pc[t] # "idle") ~> (pc[t] = "idle")

\* a task waits for the lock while the holder awaits a reply that cannot
\* come any more: the listener has ended
C16_Witness ==
  \E t, u \in Tasks :
    /\ pc[t] = "await"
    /\ fut[mypid[t]].st = "pending"
    /\ listener \in {"eof", "crashed"}
    /\ pc[u] = "lock"

\* the step in which task t registers its request and writes its block
Registers(t) == call[t] = NoCall /\ call'[t] # NoCall

\* the 16-byte block the specification lays out for a logic-state request
\* with the payload bytes given: length, 0, 0x11 0x0E 0x00 0x00, payload, padding
LogicBlock(payload) ==
  <<Len(payload), 0, 17, 14, 0, 0>> \o payload \o [i \in 1..(10 - Len(payload)) |-> 0]

\* C17: get_logic_state(id) writes the logic-state command with the
\* 2-byte big-endian id as payload and registers its request with key id;
\* on a reply with payload p it raises DHDProtocolError when len(p) < 3 and
\* returns p[2] # 0 otherwise.
C17_GetLogicState ==
  /\ [][\A t \in Tasks :
          (Registers(t) /\ call'[t].op = "get_logic_state") =>
             LET id == call'[t].id
             IN /\ out'.who = t
                /\ out'.tx = LogicBlock(<<id \div 256, id % 256>>)
                /\ fut'[mypid'[t]].cmd = ECP_CMD_SET_LOGIC
                /\ fut'[mypid'[t]].key = id]_vars
  /\ [][\A t \in Tasks :
          (call[t].op = "get_logic_state" /\ AwaitResult(t)) =>
             LET p == fut[mypid[t]].val[2]
             IN /\ out'.who = t
                /\ Len(p) < 3 => out'.ret = "DHDProtocolError"
                /\ (Len(p) >= 3 /\ p[3] # 0) => out'.ret = "True"
                /\ (Len(p) >= 3 /\ p[3] = 0) => out'.ret = "False"]_vars

\* get_logic_state has raised DHDProtocolError on a reply shorter than 3 bytes
C17_Witness ==
  /\ out.who \in Tasks
  /\ out.ret = "DHDProtocolError"
  /\ out.at = 351

C19_RoundTrip ==
  /\ codec.stage \in {"built", "parsed", "parse_error"} /\ Len(codec.data) <= 8
       => codec.ok /\ codec.stage # "parse_error"
  /\ codec.stage = "parsed"
       => codec.parsed = <<Len(codec.data), codec.cmd, codec.data>>

\* a full 8-byte payload of non-zero bytes under the command id 0x7FFFFFFF
\* has made the round trip
C19_Witness ==
  /\ codec.stage = "parsed"
  /\ codec.cmd = 2147483647
  /\ codec.data = [i \in 1..8 |-> i]

\* C20: _build_block raises ValueError for a payload of more than 8 bytes;
\* otherwise it returns 16 bytes: byte 0 the payload length, byte 1 zero,
\* bytes 2-5 the command id with the most significant byte first, bytes
\* 6-13 the payload followed by zeros, bytes 14-15 zero.
C20_BlockLayout ==
  codec.stage = "built" =>
    IF Len(codec.data) > 8
    THEN ~codec.ok
    ELSE LET b == codec.block
         IN /\ codec.ok
            /\ Len(b) = 16
            /\ b[1] = Len(codec.data)
            /\ b[2] = 0
            /\ \A i \in 3..6 : b[i] \in 0..255
            /\ ((b[3] * 256 + b[4]) * 256 + b[5]) * 256 + b[6] = codec.cmd
            /\ \A i \in 1..8 :
                 b[6 + i] = IF i <= Len(codec.data) THEN codec.data[i] ELSE 0
            /\ b[15] = 0
            /\ b[16] = 0

\* _build_block has raised ValueError on a payload of 9 bytes
C20_Witness ==
  /\ codec.stage = "built"
  /\ Len(codec.data) = 9
  /\ ~codec.ok

\* C21: for every 16-byte block _parse_block returns a length between 0
\* and 8 and a payload of exactly that many bytes, taken from bytes 6..13
\* of the block; bytes 14-15 are in no payload.
C21_DecodeBounded ==
  codec.stage = "decoded" =>
    LET length == codec.parsed[1]
        data == codec.parsed[3]
    IN /\ length \in 0..8
       /\ Len(data) = length
       /\ data = SubSeq(codec.block, 7, 6 + length)

\* C22: send_command puts its request into _pending before it writes the
\* block: in the state the write leaves, the request is in _pending and
\* not done, so a block that arrives next finds it there.
C22_RegisteredBeforeWrite ==
  out.tx # << >> =>
    /\ out.who \in Tasks
    /\ InPending(mypid[out.who])
    /\ fut[mypid[out.who]].st = "pending"

\* a reply has completed a request whose caller still awaits drain()
C22_Witness ==
  \E t \in Tasks : pc[t] = "drain" /\ fut[mypid[t]].st = "result"

\* C23: a future is completed at most once: once it holds a result or an
\* exception, or its call has timed out or ended, no step of the listener,
\* of a timeout or of disconnect() gives it another result or exception,
\* and the listener delivers a block to futures that are not done only.
C23_FilledOnce ==
  /\ [][\A p \in Pids :
          /\ fut[p].st \in {"result", "disc"} => fut'[p] \in {fut[p], Gone}
          /\ fut[p].st = "gone" => fut'[p] = Gone]_vars
  /\ [][\A p \in Pids :
          (fut'[p].st \in {"result", "disc"} /\ fut'[p] # fut[p]) =>
             (fut[p].st = "pending" /\ InPending(p))]_vars

\* disconnect() has run over a future that the listener had completed, and
\* the future kept its result
C23_Witness ==
  \E t \in Tasks :
    /\ pc[t] = "await"
    /\ fut[mypid[t]].st = "result"
    /\ pending = << >>

\* C24: in every reachable state at most one listener loop exists that
\* has not ended, and it is the task the client holds; a step creates a
\* loop only when none exists, whatever connects, disconnects and losses
\* of the connection came before.
C24_OneListener ==
  /\ [](loops <= 1)
  /\ [](loops = 1 <=> listener = "running")
  /\ [][loops' > loops => loops = 0]_vars

\* connect has called _start_listener while the loop of a lost connection
\* had not ended yet: no second loop was started
C24_Witness ==
  /\ Connected
  /\ listener = "running"
  /\ lsock # 0
  /\ lsock # reader
  /\ loops = 1

\* connect() or disconnect() is under way, in a caller of its own or
\* inside the _ensure_connected of a send_command
Connecting == cpc # "idle" \/ \E t \in Tasks : pc[t] = "connecting"

\* C25: whenever connected is true and no connect() or disconnect() call
\* is under way, a listener loop is running and reads from the reader of
\* the current connection.
C25_ConnectedHasListener ==
  (Connected /\ ~Connecting /\ dpc = "idle") =>
    (listener = "running" /\ lsock = reader)

\* C26: when a send_command call has ended, for whatever reason, the
\* request it registered is not in _pending any more: every entry of
\* _pending belongs to a call that has not ended.
C26_NoLeftover ==
  \A i \in 1..Len(pending) : pending[i] \in Awaited

\* C27: a block is delivered only to the future of a call that has not
\* ended, and when it matches the request of a call that waits for its
\* reply, that call gets it.
C27_DeliveredToWaiting ==
  [][\A b \in RxBlocks :
       (ListenerKeeps /\ ListenerRead(b, push'.raised)) =>
          /\ Completed \subseteq Awaited
          /\ \A t \in Tasks :
               (/\ pc[t] \in {"drain", "await"}
                /\ fut[mypid[t]].st = "pending"
                /\ InPending(mypid[t])
                /\ Matches(Parsed[b].cmd, Parsed[b].data,
                           fut[mypid[t]].cmd, fut[mypid[t]].key))
               => fut'[mypid[t]].st = "result"]_vars

\* C28: a disconnect() that ends while the client is connected, which then
\* is through a connection opened after disconnect() closed the old one,
\* leaves the client connected.
C28_DisconnectKeepsNew ==
  [][(dpc = "closing" /\ dpc' = "idle" /\ Connected) => Connected']_vars

\* C29: connect(), test_connection() and send_command never replace a
\* connection that is open and held by the client: a step that stores a
\* new writer starts from a client that is not connected.
C29_OneConnection ==
  [][(writer' # 0 /\ writer' # writer) => ~Connected]_vars

\* the coordinator has returned the states it queried
Fresh == out.who = PollCaller /\ out.ret = "states"

\* C30: if from some time on the device is reachable and no connection
\* to it is lost, the polls of the coordinator return fresh states again
\* and again: the client does not stay for ever in a state in which every
\* poll fails.
C30_PollRecovers == <>[][~Loss]_vars => []<>Fresh

\* C31: when the connect() of async_setup_entry fails, the setup ends
\* with ConfigEntryNotReady and with no other exception.
C31_SetupNotReady ==
  [][(setup = "connect" /\ setup' = "failed") =>
       (out'.who = SetupCaller /\ out'.ret = "ConfigEntryNotReady")]_vars

====
